---- MODULE Spec2Model ----
(***************************************************************************)
(* Model of the record store and extraction pipeline of backend.py         *)
(* (class JobExtractor).  The backing Excel file is the only durable       *)
(* state; every store operation reloads it with pd.read_excel and rewrites *)
(* it with DataFrame.to_excel.  An operation is one atomic action; what    *)
(* the environment does during it (lock probes, write failures, the page   *)
(* fetch, the model's answer) is a nondeterministic choice.                *)
(***************************************************************************)
EXTENDS Integers, Sequences, FiniteSets, TLC

\* file and last describe the store between whole calls; held and session
\* describe calls in progress, one step at a time: held says that another
\* program (Excel) has the workbook open, session[s] is the position and the
\* local variables of the call UI session s is executing.
VARIABLES file, last, held, session

vars == <<file, last, held, session>>

----------------------------------------------------------------------------
(* Bounds *)

\* Largest number of rows the model lets the table grow to.
MaxRows == 3

\* The same for the table process_job_url fills.
MaxPipelineRows == 2

\* The same for the table that rows are deleted from and appended to again.
MaxReuseRows == 2

----------------------------------------------------------------------------
(* Values *)

\* pandas' missing-value marker (float nan), as read from an empty cell.
NaN == "<NaN>"

\* datetime.now().strftime('%Y-%m-%d') at the time of the call.
Today == "2025-01-01"

COULD_NOT_EXTRACT == "Could not extract"

\* Column order of the persisted file.
columns == <<"Status", "Company", "JobTitle", "Location", "JobFunctions", "DateApplied", "URL">>

Columns == {columns[i] : i \in 1..Len(columns)}

\* Cell texts pd.read_excel turns into NaN (keep_default_na=True); the empty
\* cell is among them.
NaValues == {"", "N/A", "NA", "NULL", "NaN", "None", "n/a", "nan", "null", "#N/A"}

\* dict.get(key, default)
Get(d, key, default) == IF key \in DOMAIN d THEN d[key] ELSE default

\* The elements of a sequence.
Range(s) == {s[i] : i \in 1..Len(s)}

----------------------------------------------------------------------------
(* The backing file and its conversions *)

\* A file is [kind, cols, rows]: kind "absent", "corrupt" (not parsable as a
\* workbook) or "table"; cols is the header row, rows the cell texts by column.
\* A DataFrame is [cols, rows].

\* No file at the path.
AbsentFile == [kind |-> "absent", cols |-> <<>>, rows |-> <<>>]

\* A zero-byte file: what open(path, 'a') creates; not parsable as a workbook.
EmptyFile == [kind |-> "corrupt", cols |-> <<>>, rows |-> <<>>]

\* A cell as pd.read_excel presents it.
ReadCell(c) == IF c \in NaValues THEN NaN ELSE c

\* A cell as DataFrame.to_excel stores it (na_rep = '': NaN becomes an empty cell).
WriteCell(v) == IF v = NaN THEN "" ELSE v

\* pd.read_excel(self.excel_file) on a parsable workbook.
ReadExcel(f) ==
    LET names == Range(f.cols)
    IN [cols |-> f.cols,
        rows |-> [i \in 1..Len(f.rows) |-> [c \in names |-> ReadCell(f.rows[i][c])]]]

\* df.to_excel(self.excel_file, index=False): the workbook that replaces the file.
ToExcel(df) ==
    LET names == Range(df.cols)
    IN [kind |-> "table",
        cols |-> df.cols,
        rows |-> [i \in 1..Len(df.rows) |-> [c \in names |-> WriteCell(df.rows[i][c])]]]

\* pd.DataFrame(columns=columns)
EmptyFrame == [cols |-> columns, rows |-> <<>>]

\* df.empty: no rows or no columns.
IsEmpty(df) == Len(df.rows) = 0 \/ Len(df.cols) = 0

\* The rows a caller sees: what pd.read_excel makes of the file's rows.
Table(f) == IF f.kind = "table" THEN ReadExcel(f).rows ELSE <<>>

----------------------------------------------------------------------------
(* Lock probe and wait *)

\* Mutant: the probe opens the file for writing, which empties it.
IsFileLocked_Truncates(f) ==
    {[locked |-> TRUE, file |-> f], [locked |-> FALSE, file |-> EmptyFile]}

\* is_file_locked: open(filepath, 'a') succeeds (creating a missing file) or
\* raises PermissionError/IOError.  Outcomes: [locked, file].
IsFileLocked(f) ==
    IF f.kind = "absent"
    THEN {[locked |-> FALSE, file |-> EmptyFile]}
    ELSE {[locked |-> l, file |-> f] : l \in BOOLEAN}

\* wait_for_file_unlock(max_wait): TRUE when a poll found the file writable,
\* FALSE on timeout; no poll at all when max_wait <= 0.
WaitForFileUnlock(max_wait) == IF max_wait > 0 THEN BOOLEAN ELSE {FALSE}

DefaultMaxWait == 30

\* "if [os.path.exists and] is_file_locked: if not wait_for_file_unlock: fail".
\* Outcomes: [pass, file, clean]; clean says that no probe found a lock.
LockGate(f, guarded) ==
    IF guarded /\ f.kind = "absent"
    THEN {[pass |-> TRUE, file |-> f, clean |-> TRUE]}
    ELSE UNION {
           IF ~p.locked
           THEN {[pass |-> TRUE, file |-> p.file, clean |-> TRUE]}
           ELSE {[pass |-> w, file |-> p.file, clean |-> FALSE]
                 : w \in WaitForFileUnlock(DefaultMaxWait)}
           : p \in IsFileLocked(f)}

----------------------------------------------------------------------------
(* load_or_create_excel *)

\* What one df.to_excel call can do: succeed, raise PermissionError, raise
\* another exception.
WriteResults == {"ok", "PermissionError", "Exception"}

\* df['URL'] = "": a new last column holding the empty string in every row.
AddUrlColumn(df) ==
    [cols |-> Append(df.cols, "URL"),
     rows |-> [i \in 1..Len(df.rows) |->
                 [c \in Range(df.cols) \cup {"URL"} |->
                    IF c = "URL" THEN "" ELSE df.rows[i][c]]]]

\* The try block of load_or_create_excel once read_excel returned df: the URL
\* column is added and saved when missing.  A PermissionError of the save is
\* re-raised; any other exception leads to the new empty DataFrame.
Migrate(f, df, clean) ==
    IF "URL" \in Range(df.cols)
    THEN {[exc |-> "none", df |-> df, file |-> f, clean |-> clean]}
    ELSE {IF w = "ok"
          THEN [exc |-> "none", df |-> AddUrlColumn(df),
                file |-> ToExcel(AddUrlColumn(df)), clean |-> clean]
          ELSE IF w = "PermissionError"
          THEN [exc |-> "PermissionError", df |-> EmptyFrame, file |-> f, clean |-> FALSE]
          ELSE [exc |-> "none", df |-> EmptyFrame, file |-> f, clean |-> FALSE]
          : w \in WriteResults}

\* Mutant: a file that cannot be parsed makes the load fail.
ReadUnparsable_Raises(f, clean) ==
    {[exc |-> "Exception", df |-> EmptyFrame, file |-> f, clean |-> clean]}

\* Mutant: a file that cannot be parsed is replaced by a new empty workbook.
ReadUnparsable_Recreates(f, clean) ==
    {[exc |-> "none", df |-> EmptyFrame, file |-> ToExcel(EmptyFrame), clean |-> clean]}

\* Mutant: the table of an earlier call is used; the file is not read.
LoadOrCreateExcel_NeverReads(f) ==
    {[exc |-> "none", df |-> EmptyFrame, file |-> f, clean |-> TRUE]}

\* pd.read_excel raised something other than PermissionError: the exception
\* is logged and the new empty DataFrame is returned; nothing is written.
ReadUnparsable(f, clean) ==
    {[exc |-> "none", df |-> EmptyFrame, file |-> f, clean |-> clean]}

\* Outcomes: [exc, df, file, clean]; exc is "none" or the exception raised.
LoadOrCreateExcel(f) ==
    UNION {
      IF ~g.pass
      THEN {[exc |-> "PermissionError", df |-> EmptyFrame, file |-> g.file, clean |-> FALSE]}
      ELSE IF g.file.kind = "absent"
      THEN {[exc |-> "none", df |-> EmptyFrame, file |-> g.file, clean |-> g.clean]}
      ELSE IF g.file.kind = "corrupt"
      THEN ReadUnparsable(g.file, g.clean)
           \cup {[exc |-> "PermissionError", df |-> EmptyFrame, file |-> g.file,
                  clean |-> FALSE]}
      ELSE UNION {Migrate(g.file, df, g.clean) : df \in {ReadExcel(g.file)}}
           \cup {[exc |-> "PermissionError", df |-> EmptyFrame, file |-> g.file,
                  clean |-> FALSE]}
      : g \in LockGate(f, TRUE)}

----------------------------------------------------------------------------
(* append_to_excel *)

\* new_row of append_to_excel.
NewRow(job_info) ==
    [Status       |-> Get(job_info, "status", "Applied"),
     Company      |-> Get(job_info, "company_name", ""),
     JobTitle     |-> Get(job_info, "position_title", ""),
     Location     |-> Get(job_info, "location", ""),
     JobFunctions |-> Get(job_info, "job_functions", ""),
     DateApplied  |-> Get(job_info, "date_applied", Today),
     URL          |-> Get(job_info, "url", "")]

\* Mutant: the duplicate check compares the URL column.
IsDuplicate_ByUrl(df, job_info) ==
    /\ Len(df.rows) > 0
    /\ "URL" \in Range(df.cols)
    /\ \E i \in 1..Len(df.rows) :
          df.rows[i].URL # NaN /\ df.rows[i].URL = Get(job_info, "url", "")

\* Mutant: a row is a duplicate only if its URL matches as well.
IsDuplicate_SameUrlToo(df, job_info) ==
    /\ Len(df.rows) > 0
    /\ {"Company", "JobTitle", "URL"} \subseteq Range(df.cols)
    /\ \E i \in 1..Len(df.rows) :
          /\ df.rows[i].Company = Get(job_info, "company_name", "")
          /\ df.rows[i].JobTitle = Get(job_info, "position_title", "")
          /\ WriteCell(df.rows[i].URL) = Get(job_info, "url", "")

\* duplicate_check of append_to_excel: a loaded row whose Company and Job Title
\* cells both compare equal to the incoming values (NaN equals nothing); not
\* made when the frame is empty or lacks one of the two columns.
IsDuplicate(df, job_info) ==
    /\ ~IsEmpty(df)
    /\ "Company" \in Range(df.cols)
    /\ "JobTitle" \in Range(df.cols)
    /\ \E i \in 1..Len(df.rows) :
          /\ df.rows[i].Company # NaN
          /\ df.rows[i].Company = Get(job_info, "company_name", "")
          /\ df.rows[i].JobTitle # NaN
          /\ df.rows[i].JobTitle = Get(job_info, "position_title", "")

\* Mutant: the new row is put above the last row.
Concat_BeforeLast(df, new_row) ==
    LET have == Range(df.cols)
        cols == df.cols \o SelectSeq(columns, LAMBDA c : c \notin have)
        names == Range(cols)
        Fill(r) == [c \in names |-> IF c \in DOMAIN r THEN r[c] ELSE NaN]
        n == Len(df.rows)
    IN [cols |-> cols,
        rows |-> [i \in 1..(n + 1) |->
                    IF n = 0 \/ i = n THEN Fill(new_row)
                    ELSE IF i = n + 1 THEN Fill(df.rows[n])
                    ELSE Fill(df.rows[i])]]

\* Mutant: the new row is put in front.
Concat_Prepend(df, new_row) ==
    LET have == Range(df.cols)
        cols == df.cols \o SelectSeq(columns, LAMBDA c : c \notin have)
        names == Range(cols)
        Fill(r) == [c \in names |-> IF c \in DOMAIN r THEN r[c] ELSE NaN]
    IN [cols |-> cols,
        rows |-> [i \in 1..(Len(df.rows) + 1) |->
                    IF i = 1 THEN Fill(new_row) ELSE Fill(df.rows[i - 1])]]

\* pd.concat([df, pd.DataFrame([new_row])], ignore_index=True): the columns are
\* those of df followed by the new row's columns df lacks; a cell a frame has
\* no column for is NaN.
Concat(df, new_row) ==
    LET have == Range(df.cols)
        cols == df.cols \o SelectSeq(columns, LAMBDA c : c \notin have)
        names == Range(cols)
        Fill(r) == [c \in names |-> IF c \in DOMAIN r THEN r[c] ELSE NaN]
    IN [cols |-> cols,
        rows |-> [i \in 1..(Len(df.rows) + 1) |->
                    IF i <= Len(df.rows) THEN Fill(df.rows[i]) ELSE Fill(new_row)]]

max_retries == 3

RetryMaxWait == 10

\* The save loop of append_to_excel from attempt number `attempt` (0-based);
\* saved is the workbook df.to_excel leaves when it succeeds.
\* Outcomes: [exc, file, clean].  After a PermissionError that is not the last
\* attempt's, the loop goes on to the later attempts whatever the wait returns.
RECURSIVE SaveWithRetry(_, _, _)
SaveWithRetry(f, saved, attempt) ==
    IF attempt >= max_retries
    THEN {[exc |-> "none", file |-> f, clean |-> FALSE]}
    ELSE UNION {
      IF w = "ok"
      THEN {[exc |-> "none", file |-> saved, clean |-> (attempt = 0)]}
      ELSE IF w = "Exception"
      THEN {[exc |-> "Exception", file |-> f, clean |-> FALSE]}
      ELSE IF attempt < max_retries - 1
      THEN UNION {UNION {later : ok \in WaitForFileUnlock(RetryMaxWait)}
                  : later \in {SaveWithRetry(f, saved, attempt + 1)}}
      ELSE {[exc |-> "PermissionError", file |-> f, clean |-> FALSE]}
      : w \in WriteResults}

\* Outcomes: [exc, ret, file, clean]; ret is the returned bool when exc = "none".
AppendToExcel(f, job_info) ==
    UNION {
      IF ~g.pass
      THEN {[exc |-> "PermissionError", ret |-> FALSE, file |-> g.file, clean |-> FALSE]}
      ELSE UNION {
        IF l.exc # "none"
        THEN {[exc |-> l.exc, ret |-> FALSE, file |-> l.file, clean |-> FALSE]}
        ELSE IF IsDuplicate(l.df, job_info)
        THEN {[exc |-> "none", ret |-> FALSE, file |-> l.file, clean |-> g.clean /\ l.clean]}
        ELSE UNION {
               {[exc |-> s.exc, ret |-> (s.exc = "none"), file |-> s.file,
                 clean |-> g.clean /\ l.clean /\ s.clean]
                : s \in SaveWithRetry(l.file, saved, 0)}
               : saved \in {ToExcel(Concat(l.df, NewRow(job_info)))}}
        : l \in LoadOrCreateExcel(g.file)}
      : g \in LockGate(f, TRUE)}

----------------------------------------------------------------------------
(* update_row_status and delete_row *)

MsgLocked == "Excel file is locked. Please close it and try again."
MsgNoData == "No data found in Excel file."
MsgOutOfRange == "Row number is out of range."
MsgUpdateFailed == "Failed to update row status"
MsgUpdated == "Row status updated"
MsgDeleteFailed == "Failed to delete row"
MsgDeleted == "Deleted row"

\* Python's sequence indexing: the 1-based position that 0-based index k
\* (negative: counted from the end) names in a sequence of n elements.
PyIndex(k, n) == IF k < 0 THEN n + k + 1 ELSE k + 1

\* Mutant: the lower bound of the range check is missing.
RowOutOfRange_NoLowerBound(df, row_number) == row_number > Len(df.rows)

\* "if row_number < 1 or row_number > len(df)"
RowOutOfRange(df, row_number) == row_number < 1 \/ row_number > Len(df.rows)

\* Mutant: the assignment sets the whole Status column.
SetStatus_WholeColumn(df, row_number, new_status) ==
    [df EXCEPT !.rows = [i \in 1..Len(df.rows) |-> [df.rows[i] EXCEPT !.Status = new_status]]]

\* df.iloc[row_number - 1, df.columns.get_loc('Status')] = new_status, for a
\* frame that has the Status column.
SetStatus(df, row_number, new_status) ==
    [df EXCEPT !.rows[PyIndex(row_number - 1, Len(df.rows))] =
                  [@ EXCEPT !.Status = new_status]]

\* Mutant: the row number is used as the 0-based index.
DropRow_OffByOne(df, row_number) ==
    LET pos == PyIndex(row_number, Len(df.rows))
    IN [df EXCEPT !.rows = [i \in 1..(Len(df.rows) - 1) |->
                              IF i < pos THEN df.rows[i] ELSE df.rows[i + 1]]]

\* df.drop(df.index[row_number - 1]).reset_index(drop=True)
DropRow(df, row_number) ==
    LET pos == PyIndex(row_number - 1, Len(df.rows))
    IN [df EXCEPT !.rows = [i \in 1..(Len(df.rows) - 1) |->
                              IF i < pos THEN df.rows[i] ELSE df.rows[i + 1]]]

\* row_info = df.iloc[row_number - 1]
RowInfo(df, row_number) == df.rows[PyIndex(row_number - 1, Len(df.rows))]

\* row_info.get('Company', row_info.get('Company Name', 'Unknown'))
RowCompany(row_info) == Get(row_info, "Company", Get(row_info, "Company Name", "Unknown"))

\* row_info.get('Job Title', row_info.get('Position Title', 'Unknown'))
RowJobTitle(row_info) == Get(row_info, "JobTitle", Get(row_info, "Position Title", "Unknown"))

\* Outcomes: [ret, file]; ret = [success, message].  Which probe met a lock
\* makes no difference to what follows, so the gate's and the load's outcomes
\* are taken without their clean flag.
UpdateRowStatus(f, row_number, new_status) ==
    UNION {
      IF ~g.pass
      THEN {[ret |-> [success |-> FALSE, message |-> MsgLocked], file |-> g.file]}
      ELSE UNION {
        IF l.exc # "none"
        THEN {[ret |-> [success |-> FALSE, message |-> MsgUpdateFailed], file |-> l.file]}
        ELSE IF IsEmpty(l.df)
        THEN {[ret |-> [success |-> FALSE, message |-> MsgNoData], file |-> l.file]}
        ELSE IF RowOutOfRange(l.df, row_number)
        THEN {[ret |-> [success |-> FALSE, message |-> MsgOutOfRange], file |-> l.file]}
        ELSE IF "Status" \notin Range(l.df.cols)
        THEN {[ret |-> [success |-> FALSE, message |-> MsgUpdateFailed], file |-> l.file]}
        ELSE {IF w = "ok"
              THEN [ret |-> [success |-> TRUE, message |-> MsgUpdated],
                    file |-> ToExcel(SetStatus(l.df, row_number, new_status))]
              ELSE [ret |-> [success |-> FALSE, message |-> MsgUpdateFailed], file |-> l.file]
              : w \in WriteResults}
        : l \in {[exc |-> x.exc, df |-> x.df, file |-> x.file]
                 : x \in LoadOrCreateExcel(g.file)}}
      : g \in {[pass |-> x.pass, file |-> x.file] : x \in LockGate(f, FALSE)}}

\* Outcomes: [ret, file]; ret = [success, message, company, title], the last two
\* being the removed row's identity as named in the confirmation message.
DeleteRow(f, row_number) ==
    UNION {
      IF ~g.pass
      THEN {[ret |-> [success |-> FALSE, message |-> MsgLocked], file |-> g.file]}
      ELSE UNION {
        IF l.exc # "none"
        THEN {[ret |-> [success |-> FALSE, message |-> MsgDeleteFailed], file |-> l.file]}
        ELSE IF IsEmpty(l.df)
        THEN {[ret |-> [success |-> FALSE, message |-> MsgNoData], file |-> l.file]}
        ELSE IF RowOutOfRange(l.df, row_number)
        THEN {[ret |-> [success |-> FALSE, message |-> MsgOutOfRange], file |-> l.file]}
        ELSE {IF w = "ok"
              THEN [ret |-> [success |-> TRUE, message |-> MsgDeleted,
                             company |-> RowCompany(RowInfo(l.df, row_number)),
                             title |-> RowJobTitle(RowInfo(l.df, row_number))],
                    file |-> ToExcel(DropRow(l.df, row_number))]
              ELSE [ret |-> [success |-> FALSE, message |-> MsgDeleteFailed], file |-> l.file]
              : w \in WriteResults}
        : l \in {[exc |-> x.exc, df |-> x.df, file |-> x.file]
                 : x \in LoadOrCreateExcel(g.file)}}
      : g \in {[pass |-> x.pass, file |-> x.file] : x \in LockGate(f, FALSE)}}

----------------------------------------------------------------------------
(* Inputs of the store operations *)

Urls == {"", "https://acme.example/job"}

FullInfo(company, title) ==
    [status |-> "Applied", company_name |-> company, position_title |-> title,
     location |-> "Remote", job_functions |-> "Backend", date_applied |-> Today]

\* Mutant: a url the record already has is kept.
WithUrl_KeepsExisting(job_info, url) ==
    [k \in DOMAIN job_info \cup {"url"} |->
       IF k \in DOMAIN job_info THEN job_info[k] ELSE url]

\* job_info["url"] = url
WithUrl(job_info, url) ==
    [k \in DOMAIN job_info \cup {"url"} |-> IF k = "url" THEN url ELSE job_info[k]]

\* Arguments of append_to_excel: the same identity with and without a url, a
\* record sharing only the title and url, a record sharing only the company
\* (keys missing, so its title is the default "").
JobInfos ==
    {WithUrl(FullInfo("Acme", "Engineer"), "https://acme.example/job"),
     WithUrl(FullInfo("Acme", "Engineer"), ""),
     WithUrl(FullInfo("Globex", "Engineer"), "https://acme.example/job"),
     [company_name |-> "Acme"]}

Statuses == {"Interviewed"}

\* Row numbers a caller may pass: 0 and MaxRows + 1 are out of range for every table.
RowNumbers == 0..(MaxRows + 1)

----------------------------------------------------------------------------
(* extract_job_info and process_job_url *)

\* A model answer (response.text) is a sequence of tokens: the opening fence
\* (three backquotes and the word json), the closing fence (three backquotes),
\* a newline, a word of prose, or the text of one JSON value.  NoText stands
\* for response.text being None.
NoText == <<"<None>">>

FenceJson == "<fence>json"
Fence == "<fence>"
Newline == "\n"

ObjAcme == "{Acme/Engineer}"
ObjPartial == "{Acme, url}"
ModelUrl == "https://model.example/other"
JsonList == "[1, 2]"
JsonString == "\"text\""
JsonNumber == "42"

\* json.loads of the text of one JSON value: [type, value].
JsonValue(tok) ==
    CASE tok = ObjAcme    -> [type |-> "dict", value |-> FullInfo("Acme", "Engineer")]
      [] tok = ObjPartial -> [type |-> "dict",
                              value |-> [company_name |-> "Acme", url |-> ModelUrl]]
      [] tok = JsonList   -> [type |-> "list", value |-> <<>>]
      [] tok = JsonString -> [type |-> "str", value |-> <<>>]
      [] tok = JsonNumber -> [type |-> "number", value |-> <<>>]

JsonTokens == {ObjAcme, ObjPartial, JsonList, JsonString, JsonNumber}

\* str.strip(): leading and trailing whitespace removed.
RECURSIVE LStrip(_)
LStrip(text) ==
    IF text # <<>> /\ Head(text) = Newline THEN LStrip(Tail(text)) ELSE text

RECURSIVE RStrip(_)
RStrip(text) ==
    IF text # <<>> /\ text[Len(text)] = Newline
    THEN RStrip(SubSeq(text, 1, Len(text) - 1))
    ELSE text

Strip(text) == RStrip(LStrip(text))

\* Mutant: the trailing fence is left in place.
CleanResponse_KeepsTrailingFence(text) ==
    LET t0 == Strip(text)
        t1 == IF t0 # <<>> /\ Head(t0) = FenceJson THEN Tail(t0) ELSE t0
    IN Strip(t1)

\* Lines 159-164: strip, drop a leading json fence, drop a trailing fence, strip.
CleanResponse(text) ==
    LET t0 == Strip(text)
        t1 == IF t0 # <<>> /\ Head(t0) = FenceJson THEN Tail(t0) ELSE t0
        t2 == IF t1 # <<>> /\ t1[Len(t1)] = Fence THEN SubSeq(t1, 1, Len(t1) - 1) ELSE t1
    IN Strip(t2)

\* json.loads(response_text): [ok, value]; ok = FALSE is JSONDecodeError.
\* Whitespace around the one value is accepted.
JsonLoads(text) ==
    LET value == Strip(text)
    IN IF Len(value) = 1 /\ value[1] \in JsonTokens
       THEN [ok |-> TRUE, value |-> JsonValue(value[1])]
       ELSE [ok |-> FALSE, value |-> [type |-> "none", value |-> <<>>]]

\* Mutant: the fallback names the page in the company field.
FallbackExtraction_NamesUrl(url, response_text) ==
    [status |-> "Applied", company_name |-> url,
     position_title |-> COULD_NOT_EXTRACT, location |-> COULD_NOT_EXTRACT,
     job_functions |-> COULD_NOT_EXTRACT, date_applied |-> Today]

\* fallback_extraction(url, response_text)
FallbackExtraction(url, response_text) ==
    [status |-> "Applied", company_name |-> COULD_NOT_EXTRACT,
     position_title |-> COULD_NOT_EXTRACT, location |-> COULD_NOT_EXTRACT,
     job_functions |-> COULD_NOT_EXTRACT, date_applied |-> Today]

\* The try block of extract_job_info after generate_content returned `text`:
\* [exc, job_info].  None has no strip(): AttributeError, which the inner
\* except (JSONDecodeError only) does not catch.
ParseResponse(url, text) ==
    IF text = NoText
    THEN [exc |-> "AttributeError", job_info |-> [type |-> "none", value |-> <<>>]]
    ELSE LET parsed == JsonLoads(CleanResponse(text))
         IN IF parsed.ok
            THEN [exc |-> "none", job_info |-> parsed.value]
            ELSE [exc |-> "none",
                  job_info |-> [type |-> "dict", value |-> FallbackExtraction(url, text)]]

\* Mutant: a failed fetch is logged and the model is asked all the same.
ExtractJobInfo_GoesOnAfterFetchError(url, fetch, gen) ==
    IF gen = <<"ModelError">>
    THEN [exc |-> "ModelError", job_info |-> [type |-> "none", value |-> <<>>],
          steps |-> <<"fetch", "generate">>]
    ELSE ParseResponse(url, gen) @@ [steps |-> <<"fetch", "generate">>]

\* extract_job_info(url, custom_prompt) given what the fetch and the model
\* call do: fetch is "ok" or "RequestException", gen is "ModelError" or the
\* answer's text.  [exc, job_info, steps]; steps lists the collaborator calls
\* made, in order.
ExtractJobInfo(url, fetch, gen) ==
    IF fetch # "ok"
    THEN [exc |-> fetch, job_info |-> [type |-> "none", value |-> <<>>],
          steps |-> <<"fetch">>]
    ELSE IF gen = <<"ModelError">>
    THEN [exc |-> "ModelError", job_info |-> [type |-> "none", value |-> <<>>],
          steps |-> <<"fetch", "generate">>]
    ELSE ParseResponse(url, gen) @@ [steps |-> <<"fetch", "generate">>]

MsgAdded == "Job information extracted and added to spreadsheet"
MsgExists == "URL already exists in spreadsheet"
MsgFailed == "Failed to process job URL"

\* No record: the call ended before append_to_excel was called.
NoRecord == [none |-> TRUE]

\* The try block of process_job_url.  Outcomes: [exc, stage, ret, file, steps,
\* job_info]: the exception that left the block ("none" when it returned ret),
\* the step that was running when the block ended, the collaborator calls made
\* and the record handed to append_to_excel.
ProcessTry(f, url, fetch, gen) ==
    LET none == [success |-> FALSE]
    IN UNION {
       IF e.exc # "none"
       THEN {[exc |-> e.exc, ret |-> none, file |-> f, steps |-> e.steps,
              job_info |-> NoRecord,
              stage |-> IF fetch # "ok" THEN "fetch"
                        ELSE IF gen = <<"ModelError">> THEN "generate" ELSE "parse"]}
       ELSE IF e.job_info.type # "dict"
       THEN {[exc |-> "TypeError", ret |-> none, file |-> f, steps |-> e.steps,
              job_info |-> NoRecord, stage |-> "attach"]}
       ELSE UNION {
              {IF a.exc # "none"
               THEN [exc |-> a.exc, ret |-> none, file |-> a.file, stage |-> "persist",
                     steps |-> Append(e.steps, "append"), job_info |-> job_info]
               ELSE [exc |-> "none", file |-> a.file, stage |-> "return",
                     steps |-> Append(e.steps, "append"), job_info |-> job_info,
                     ret |-> [success |-> a.ret, job_info |-> job_info,
                              message |-> IF a.ret THEN MsgAdded ELSE MsgExists]]
               : a \in AppendToExcel(f, job_info)}
              : job_info \in {WithUrl(e.job_info.value, IF url # "" THEN url ELSE "")}}
       : e \in {ExtractJobInfo(url, fetch, gen)}}

\* The exception classes the model raises; all derive from Exception.
Exceptions ==
    {"PermissionError", "Exception", "RequestException", "ModelError",
     "AttributeError", "TypeError"}

\* Mutant: only PermissionError is caught, as in append_to_excel's first clause.
CaughtByProcess_PermissionOnly(exc) == exc = "PermissionError"

\* "except Exception as e" of process_job_url.
CaughtByProcess(exc) == exc \in Exceptions

\* process_job_url(url, custom_prompt).  Outcomes: [raised, stage, ret, file,
\* steps, job_info]; raised is the exception that escapes to the caller, "none"
\* when ret is returned.
ProcessJobUrl(f, url, fetch, gen) ==
    {IF o.exc = "none"
     THEN [raised |-> "none", stage |-> o.stage, ret |-> o.ret, file |-> o.file,
           steps |-> o.steps, job_info |-> o.job_info]
     ELSE IF CaughtByProcess(o.exc)
     THEN [raised |-> "none", stage |-> o.stage, file |-> o.file,
           steps |-> o.steps, job_info |-> o.job_info,
           ret |-> [success |-> FALSE, error |-> o.exc, message |-> MsgFailed]]
     ELSE [raised |-> o.exc, stage |-> o.stage, file |-> o.file, ret |-> o.ret,
           steps |-> o.steps, job_info |-> o.job_info]
     : o \in ProcessTry(f, url, fetch, gen)}

----------------------------------------------------------------------------
(* Inputs of the pipeline *)

\* What generate_content does: raise, or answer with one of these texts.
ModelTexts ==
    {<<ObjAcme>>,
     <<FenceJson, Newline, ObjAcme, Newline, Fence>>,
     <<ObjPartial>>,
     <<Newline, FenceJson, ObjPartial, Fence, Newline>>,
     <<"prose">>,
     <<Fence, Newline, ObjAcme, Newline, Fence>>,
     <<>>,
     <<JsonList>>, <<JsonString>>, <<JsonNumber>>,
     NoText}

GenResults == ModelTexts \cup {<<"ModelError">>}

\* generate_content is not reached when the fetch raised.
NotCalled == <<"<not called>">>

\* What the two collaborators do in one process_job_url call: <<fetch, gen>>.
CollaboratorResults ==
    {<<"RequestException", NotCalled>>} \cup {<<"ok", gen>> : gen \in GenResults}

----------------------------------------------------------------------------
(* __init__: the API key *)

\* Python's None: no argument passed, environment variable not set.
PyNone == "<None>"

\* The value DEFAULT_API_KEY has in a checkout nobody put a key into.
Placeholder == "YOUR_GEMINI_API_KEY_HERE"

\* Python truth value of a string or None.
Truthy(v) == v \notin {PyNone, ""}

\* a or b
PyOr(a, b) == IF Truthy(a) THEN a ELSE b

\* Mutant: the environment is asked before the built-in default.
ResolveApiKey_EnvironmentFirst(api_key, default_key, gemini, google) ==
    IF Truthy(api_key) THEN api_key
    ELSE IF Truthy(PyOr(gemini, google)) THEN PyOr(gemini, google)
    ELSE default_key

\* Lines 31-36: the key __init__ settles on, given its argument, the module's
\* DEFAULT_API_KEY and the two environment variables.
ResolveApiKey(api_key, default_key, gemini, google) ==
    IF Truthy(api_key) THEN api_key
    ELSE IF Truthy(default_key) /\ default_key # Placeholder THEN default_key
    ELSE PyOr(gemini, google)

\* __init__(api_key): [raised, api_key].
JobExtractorInit(api_key, default_key, gemini, google) ==
    LET key == ResolveApiKey(api_key, default_key, gemini, google)
    IN IF ~Truthy(key)
       THEN [raised |-> "ValueError", api_key |-> key]
       ELSE [raised |-> "none", api_key |-> key]

ApiKeyArguments == {PyNone, "", "key-argument"}
DefaultApiKeys == {PyNone, "", Placeholder, "key-default"}
GeminiApiKeys == {PyNone, "", "key-gemini"}
GoogleApiKeys == {PyNone, "", "key-google"}

----------------------------------------------------------------------------
(* Files the program may find at its path *)

\* The row append_to_excel writes for a record, cut down to the columns cols.
RowOver(cols, job_info) == [c \in Range(cols) |-> NewRow(job_info)[c]]

\* A workbook written before the URL column existed: six columns, two rows.
LegacyColumns == SubSeq(columns, 1, 6)

LegacyFile ==
    [kind |-> "table", cols |-> LegacyColumns,
     rows |-> <<RowOver(LegacyColumns, FullInfo("Acme", "Engineer")),
                RowOver(LegacyColumns, FullInfo("Globex", "Engineer"))>>]

\* The same with the header row only.
LegacyHeaderOnly == [kind |-> "table", cols |-> LegacyColumns, rows |-> <<>>]

\* A workbook the user added a Notes column to.
NotesColumns == Append(columns, "Notes")

NotesFile ==
    [kind |-> "table", cols |-> NotesColumns,
     rows |-> <<[c \in Range(NotesColumns) |->
                   IF c = "Notes" THEN "call back"
                   ELSE NewRow(FullInfo("Initech", "Analyst"))[c]]>>]

\* A workbook kept with other columns: no Status, no URL, Company first.
ShortColumns == <<"Company", "JobTitle">>

ShortFile ==
    [kind |-> "table", cols |-> ShortColumns,
     rows |-> <<RowOver(ShortColumns, FullInfo("Initech", "Analyst"))>>]

\* A file that is not a workbook; rows holds its content.
CorruptFile == [kind |-> "corrupt", cols |-> <<>>, rows |-> <<[bytes |-> "not a workbook"]>>]

ExistingFiles ==
    {CorruptFile, LegacyFile, LegacyHeaderOnly, NotesFile, ShortFile}

----------------------------------------------------------------------------
(* Calls in progress: the store operations one file access at a time.       *)
(* A lock probe answers held; a to_excel call fails on the lock exactly     *)
(* when the workbook is held.                                               *)

\* UI sessions (script runs of app.py) sharing the cached JobExtractor.
Sessions == {"s1", "s2"}

\* Largest table a stepwise append is started on.
MaxSessionRows == 1

\* time.sleep(2); wait_time += 2
SleepSeconds == 2

\* Mutant: the loop condition lets in one more round.
WaitGoesOn_Inclusive(wait_time, max_wait) == wait_time <= max_wait

\* "while wait_time < max_wait"
WaitGoesOn(wait_time, max_wait) == wait_time < max_wait

\* Mutant: the save loop gives up one attempt earlier.
RetriesLeft_OneFewer(attempt) == attempt < max_retries - 2

\* "if attempt < max_retries - 1" of the save loop
RetriesLeft(attempt) == attempt < max_retries - 1

\* Mutant: rows the file has gained since the table was loaded are kept.
WriteFile_KeepsOtherRows(f, df) ==
    LET mine == ToExcel(df)
    IN IF f.kind = "table" /\ f.cols = mine.cols
       THEN [mine EXCEPT !.rows = @ \o SelectSeq(f.rows, LAMBDA r : r \notin Range(mine.rows))]
       ELSE mine

\* df.to_excel(self.excel_file, index=False) with the file holding f: the
\* workbook of df replaces the file whatever it holds.
WriteFile(f, df) == ToExcel(df)

\* What a df.to_excel call does when the workbook is held (h) or not.
ToExcelResults(h) == IF h THEN {"PermissionError"} ELSE {"ok", "Exception"}

\* What pd.read_excel does on an existing file: a held workbook may refuse it.
ReadExcelResults(h) == IF h THEN {"ok", "PermissionError"} ELSE {"ok"}

\* The returned value: success is append_to_excel's bool or the dict's
\* "success"; message is the dict's message by its kind.
NoRet == [success |-> FALSE, message |-> ""]

\* A session that is executing no call.  pc is the position in the running
\* call, df the DataFrame in memory, attempt the save loop's counter; site,
\* max_wait, wait_time belong to the wait_for_file_unlock call in progress.
\* The others record what happened: loop_probes counts the probes of the
\* current wait, loops the waits entered, writes the to_excel calls of the
\* save step, werr the last one's outcome, wait_ret the last wait's return,
\* prev the kind of the step taken last.
Idle ==
    [pc |-> "idle", op |-> "none", job_info |-> <<>>, row_number |-> 0,
     new_status |-> "", df |-> EmptyFrame, attempt |-> 0, site |-> "none",
     max_wait |-> 0, wait_time |-> 0, loop_probes |-> 0, loops |-> 0,
     writes |-> 0, werr |-> "none", wait_ret |-> "none", prev |-> "none",
     exc |-> "none", ret |-> NoRet]

NoCallInProgress ==
    /\ held = FALSE
    /\ session = [s \in Sessions |-> Idle]

\* The call returns ret or raises exc.
Done(l, exc, ret) == [l EXCEPT !.pc = "done", !.exc = exc, !.ret = ret]

\* Mutant: update_row_status and delete_row re-raise as append_to_excel does.
Raised_Reraises(l, e) == Done(l, e, NoRet)

\* Exception e reaches the operation's handlers: update_row_status and
\* delete_row turn every exception into a failure result, append_to_excel and
\* load_or_create_excel re-raise.
Raised(l, e) ==
    IF l.op = "update"
    THEN Done(l, "none", [success |-> FALSE, message |-> MsgUpdateFailed])
    ELSE IF l.op = "delete"
    THEN Done(l, "none", [success |-> FALSE, message |-> MsgDeleteFailed])
    ELSE Done(l, e, NoRet)

\* wait_for_file_unlock returned ok to the place that called it: the gate of
\* the operation, the gate of load_or_create_excel, or the save loop (which
\* goes to its next attempt either way).
WaitReturned(l, ok) ==
    LET r == [l EXCEPT !.wait_ret = IF ok THEN "unlocked" ELSE "timeout"]
    IN IF l.site = "retry"
       THEN [r EXCEPT !.attempt = @ + 1, !.pc = "write"]
       ELSE IF ok
       THEN [r EXCEPT !.pc = IF l.site = "gate" THEN "load_gate" ELSE "read"]
       ELSE IF l.site = "gate" /\ l.op \in {"update", "delete"}
       THEN Done(r, "none", [success |-> FALSE, message |-> MsgLocked])
       ELSE Raised(r, "PermissionError")

\* wait_for_file_unlock(self.excel_file, max_wait) is called at site.
EnterWait(l, site, max_wait) ==
    LET w == [l EXCEPT !.site = site, !.max_wait = max_wait, !.wait_time = 0,
                       !.loop_probes = 0, !.loops = @ + 1]
    IN IF WaitGoesOn(0, max_wait)
       THEN [w EXCEPT !.pc = "wait_probe"]
       ELSE WaitReturned(w, FALSE)

\* load_or_create_excel returns df.
Loaded(l, df) ==
    IF l.op = "load"
    THEN Done([l EXCEPT !.df = df], "none", [success |-> TRUE, message |-> ""])
    ELSE [l EXCEPT !.df = df, !.pc = "mutate"]

\* What the operation does in memory with the loaded table, up to its save.
Mutated(l) ==
    IF l.op = "append"
    THEN IF IsDuplicate(l.df, l.job_info)
         THEN Done(l, "none", [success |-> FALSE, message |-> ""])
         ELSE [l EXCEPT !.df = Concat(l.df, NewRow(l.job_info)), !.attempt = 0,
                        !.pc = "write"]
    ELSE IF IsEmpty(l.df)
    THEN Done(l, "none", [success |-> FALSE, message |-> MsgNoData])
    ELSE IF RowOutOfRange(l.df, l.row_number)
    THEN Done(l, "none", [success |-> FALSE, message |-> MsgOutOfRange])
    ELSE IF l.op = "delete"
    THEN [l EXCEPT !.df = DropRow(l.df, l.row_number), !.pc = "write"]
    ELSE IF "Status" \notin Range(l.df.cols)
    THEN Raised(l, "KeyError")
    ELSE [l EXCEPT !.df = SetStatus(l.df, l.row_number, l.new_status), !.pc = "write"]

\* The to_excel call of the save step ended as w.
Written(l, w) ==
    LET n == [l EXCEPT !.writes = @ + 1, !.werr = w]
    IN IF w = "ok"
       THEN Done(n, "none",
                 [success |-> TRUE,
                  message |-> IF l.op = "update" THEN MsgUpdated
                              ELSE IF l.op = "delete" THEN MsgDeleted ELSE ""])
       ELSE IF l.op = "append" /\ w = "PermissionError"
       THEN IF RetriesLeft(l.attempt)
            THEN EnterWait(n, "retry", RetryMaxWait)
            ELSE Raised(n, "PermissionError")
       ELSE Raised(n, w)

\* Arguments of the stepwise calls.
SessionJobInfos == {FullInfo("Acme", "Engineer"), FullInfo("Initech", "Analyst")}

SessionRowNumbers == 0..(MaxSessionRows + 1)

\* Session s takes one step of kind `kind`, leaving its call at l and the file as f.
Take(s, l, kind, f) ==
    /\ session' = [session EXCEPT ![s] = [l EXCEPT !.prev = kind]]
    /\ file' = f
    /\ UNCHANGED <<last, held>>

BeginAppend(s) ==
    /\ session[s].pc \in {"idle", "done"}
    /\ Len(file.rows) < MaxSessionRows
    /\ \E job_info \in SessionJobInfos :
         Take(s, [Idle EXCEPT !.pc = "gate", !.op = "append", !.job_info = job_info],
              "call", file)

BeginUpdate(s) ==
    /\ session[s].pc \in {"idle", "done"}
    /\ \E row_number \in SessionRowNumbers, new_status \in Statuses :
         Take(s, [Idle EXCEPT !.pc = "gate", !.op = "update",
                              !.row_number = row_number, !.new_status = new_status],
              "call", file)

BeginDelete(s) ==
    /\ session[s].pc \in {"idle", "done"}
    /\ \E row_number \in SessionRowNumbers :
         Take(s, [Idle EXCEPT !.pc = "gate", !.op = "delete", !.row_number = row_number],
              "call", file)

BeginLoad(s) ==
    /\ session[s].pc \in {"idle", "done"}
    /\ Take(s, [Idle EXCEPT !.pc = "load_gate", !.op = "load"], "call", file)

\* The operation's own lock check: append_to_excel makes it only when the
\* file exists, update_row_status and delete_row always.
Gate(s) ==
    LET l == session[s]
    IN /\ l.pc = "gate"
       /\ IF l.op = "append" /\ file.kind = "absent"
          THEN Take(s, [l EXCEPT !.pc = "load_gate"], "exists", file)
          ELSE \E p \in IsFileLocked(file) :
                 /\ p.locked = held
                 /\ Take(s, IF p.locked
                            THEN EnterWait(l, "gate", DefaultMaxWait)
                            ELSE [l EXCEPT !.pc = "load_gate"],
                         "probe", p.file)

\* The lock check of load_or_create_excel.
LoadGate(s) ==
    LET l == session[s]
    IN /\ l.pc = "load_gate"
       /\ IF file.kind = "absent"
          THEN Take(s, [l EXCEPT !.pc = "read"], "exists", file)
          ELSE \E p \in IsFileLocked(file) :
                 /\ p.locked = held
                 /\ Take(s, IF p.locked
                            THEN EnterWait(l, "load_gate", DefaultMaxWait)
                            ELSE [l EXCEPT !.pc = "read"],
                         "probe", p.file)

\* One probe of wait_for_file_unlock's loop.
WaitProbe(s) ==
    LET l == [session[s] EXCEPT !.loop_probes = @ + 1]
    IN /\ l.pc = "wait_probe"
       /\ \E p \in IsFileLocked(file) :
            /\ p.locked = held
            /\ Take(s, IF p.locked
                       THEN [l EXCEPT !.pc = "wait_sleep"]
                       ELSE WaitReturned(l, TRUE),
                    "probe", p.file)

\* The sleep of wait_for_file_unlock's loop and the loop test after it.
WaitSleep(s) ==
    LET l == [session[s] EXCEPT !.wait_time = @ + SleepSeconds]
    IN /\ l.pc = "wait_sleep"
       /\ Take(s, IF WaitGoesOn(l.wait_time, l.max_wait)
                  THEN [l EXCEPT !.pc = "wait_probe"]
                  ELSE WaitReturned(l, FALSE),
               "sleep", file)

\* The try block of load_or_create_excel up to the URL check.
Read(s) ==
    LET l == session[s]
    IN /\ l.pc = "read"
       /\ \E r \in ReadExcelResults(held) :
            Take(s, IF file.kind = "absent"
                    THEN Loaded(l, EmptyFrame)
                    ELSE IF r = "PermissionError"
                    THEN Raised(l, "PermissionError")
                    ELSE IF file.kind = "corrupt"
                    THEN Loaded(l, EmptyFrame)
                    ELSE IF "URL" \in Range(file.cols)
                    THEN Loaded(l, ReadExcel(file))
                    ELSE [l EXCEPT !.df = ReadExcel(file), !.pc = "migrate"],
                 "read", file)

\* The save of the added URL column in load_or_create_excel.
MigrateSave(s) ==
    LET l == session[s]
    IN /\ l.pc = "migrate"
       /\ \E w \in ToExcelResults(held) :
            Take(s, IF w = "ok"
                    THEN Loaded(l, AddUrlColumn(l.df))
                    ELSE IF w = "PermissionError"
                    THEN Raised(l, "PermissionError")
                    ELSE Loaded(l, EmptyFrame),
                 "migrate",
                 IF w = "ok" THEN WriteFile(file, AddUrlColumn(l.df)) ELSE file)

Mutate(s) ==
    /\ session[s].pc = "mutate"
    /\ Take(s, Mutated(session[s]), "mutate", file)

\* One df.to_excel call of the save step.
Write(s) ==
    LET l == session[s]
    IN /\ l.pc = "write"
       /\ \E w \in ToExcelResults(held) :
            Take(s, Written(l, w), "write",
                 IF w = "ok" THEN WriteFile(file, l.df) ELSE file)

\* Largest max_wait, and last elapsed second, of a wait taken on its own.
MaxWaitArg == 4

RECURSIVE WaitLoop(_, _, _)
\* The loop of wait_for_file_unlock from wait_time on, locked_at[t] being what
\* is_file_locked finds at elapsed second t.  Result: [ret, probed], the
\* returned bool and the seconds at which a probe was made.
WaitLoop(max_wait, wait_time, locked_at) ==
    IF WaitGoesOn(wait_time, max_wait)
    THEN IF ~locked_at[wait_time]
         THEN [ret |-> TRUE, probed |-> <<wait_time>>]
         ELSE [ret |-> WaitLoop(max_wait, wait_time + SleepSeconds, locked_at).ret,
               probed |-> <<wait_time>>
                          \o WaitLoop(max_wait, wait_time + SleepSeconds, locked_at).probed]
    ELSE [ret |-> FALSE, probed |-> <<>>]

\* wait_for_file_unlock(filepath, max_wait) over a given course of the lock.
WaitForFileUnlockOver(max_wait, locked_at) == WaitLoop(max_wait, 0, locked_at)

\* Another program opens the workbook and keeps it open.
ExcelOpens ==
    /\ file.kind # "absent"
    /\ ~held
    /\ held' = TRUE
    /\ UNCHANGED <<file, last, session>>

ExcelCloses ==
    /\ held
    /\ held' = FALSE
    /\ UNCHANGED <<file, last, session>>

----------------------------------------------------------------------------
(* Actions *)

Init ==
    /\ file = AbsentFile
    /\ last = [op |-> "init"]
    /\ NoCallInProgress

CallAppend ==
    \E job_info \in JobInfos :
      \E o \in AppendToExcel(file, job_info) :
        /\ Len(o.file.rows) <= MaxRows
        /\ file' = o.file
        /\ last' = [op |-> "append", job_info |-> job_info, exc |-> o.exc,
                    ret |-> o.ret, clean |-> o.clean]
        /\ UNCHANGED <<held, session>>

CallUpdate ==
    \E row_number \in RowNumbers, new_status \in Statuses :
      \E o \in UpdateRowStatus(file, row_number, new_status) :
        /\ file' = o.file
        /\ last' = [op |-> "update", row_number |-> row_number,
                    new_status |-> new_status, ret |-> o.ret]
        /\ UNCHANGED <<held, session>>

CallDelete ==
    \E row_number \in RowNumbers :
      \E o \in DeleteRow(file, row_number) :
        /\ file' = o.file
        /\ last' = [op |-> "delete", row_number |-> row_number, ret |-> o.ret]
        /\ UNCHANGED <<held, session>>

\* load_or_create_excel called on its own, as test_url.py does.
CallLoad ==
    \E o \in LoadOrCreateExcel(file) :
      /\ file' = o.file
      /\ last' = [op |-> "load", exc |-> o.exc, df |-> o.df, clean |-> o.clean]
      /\ UNCHANGED <<held, session>>

\* Rows another writer of the workbook (the user, in Excel) types in: a job the
\* program is never asked to add, and one it is.
ExternalRows ==
    {NewRow(FullInfo("Initech", "Analyst")), NewRow(FullInfo("Acme", "Engineer"))}

\* The user adds a row below the others in Excel and saves, between two
\* operations of the program.
ExternalEdit ==
    \E row \in ExternalRows :
      /\ file.kind = "table"
      /\ file.cols = columns
      /\ Len(file.rows) < MaxRows
      /\ file' = [file EXCEPT !.rows = Append(file.rows, row)]
      /\ last' = [op |-> "external", row |-> row]
      /\ UNCHANGED <<held, session>>

CallProcess ==
    \E url \in Urls, c \in CollaboratorResults :
      \E o \in ProcessJobUrl(file, url, c[1], c[2]) :
        /\ Len(o.file.rows) <= MaxPipelineRows
        /\ file' = o.file
        /\ last' = [op |-> "process", url |-> url, fetch |-> c[1], gen |-> c[2],
                    raised |-> o.raised, stage |-> o.stage, ret |-> o.ret,
                    steps |-> o.steps, job_info |-> o.job_info]
        /\ UNCHANGED <<held, session>>

\* The store as the UI's row actions and a direct caller of append_to_excel use it.
Next == CallAppend \/ CallUpdate \/ CallDelete

Spec == Init /\ [][Next]_vars

\* The pipeline: process_job_url, with delete_row to free identities.
PipelineNext == CallProcess \/ CallDelete

PipelineSpec == Init /\ [][PipelineNext]_vars

\* The store with another writer of the same workbook.
SharedNext == CallAppend \/ CallDelete \/ ExternalEdit

SharedSpec == Init /\ [][SharedNext]_vars

\* Construction of a JobExtractor in every configuration of key sources.
CredentialInit ==
    /\ file = AbsentFile
    /\ \E a \in ApiKeyArguments, d \in DefaultApiKeys,
          ge \in GeminiApiKeys, go \in GoogleApiKeys :
         last = [op |-> "configured", api_key |-> a, default_key |-> d,
                 gemini |-> ge, google |-> go]
    /\ NoCallInProgress

Construct ==
    /\ last.op = "configured"
    /\ last' = [op |-> "constructed", given |-> last,
                result |-> JobExtractorInit(last.api_key, last.default_key,
                                            last.gemini, last.google)]
    /\ UNCHANGED <<file, held, session>>

CredentialSpec == CredentialInit /\ [][Construct]_vars

\* The store started on a file that is already there.
ExistingInit ==
    /\ file \in ExistingFiles
    /\ last = [op |-> "init"]
    /\ NoCallInProgress

ExistingNext == CallLoad \/ CallAppend \/ CallDelete

ExistingSpec == ExistingInit /\ [][ExistingNext]_vars

\* append_to_excel, with the call made before it kept for reference.
CallAppendAfter ==
    \E job_info \in JobInfos :
      \E o \in AppendToExcel(file, job_info) :
        /\ Len(o.file.rows) <= MaxReuseRows
        /\ file' = o.file
        /\ last' = [op |-> "append", job_info |-> job_info, exc |-> o.exc,
                    ret |-> o.ret, clean |-> o.clean,
                    before |-> IF last.op = "delete"
                               THEN [op |-> "delete", ret |-> last.ret]
                               ELSE [op |-> last.op]]
        /\ UNCHANGED <<held, session>>

\* Rows deleted and appended again.
ReuseNext == CallAppendAfter \/ CallDelete

ReuseSpec == Init /\ [][ReuseNext]_vars

\* One session's calls step by step, with another program opening and
\* closing the workbook at any moment; the file is absent at first, or a
\* workbook from before the URL column.
LockInit ==
    /\ file \in {AbsentFile, LegacyHeaderOnly}
    /\ last = [op |-> "init"]
    /\ NoCallInProgress

LockNext ==
    \/ BeginAppend("s1") \/ BeginUpdate("s1") \/ BeginDelete("s1") \/ BeginLoad("s1")
    \/ Gate("s1") \/ LoadGate("s1") \/ WaitProbe("s1") \/ WaitSleep("s1")
    \/ Read("s1") \/ MigrateSave("s1") \/ Mutate("s1") \/ Write("s1")
    \/ ExcelOpens \/ ExcelCloses

LockSpec == LockInit /\ [][LockNext]_vars

\* The same on a workbook that has no Status column.
ShortLockInit ==
    /\ file \in {AbsentFile, ShortFile}
    /\ last = [op |-> "init"]
    /\ NoCallInProgress

ShortLockSpec == ShortLockInit /\ [][LockNext]_vars

\* A step of the call in progress.
Running(s) ==
    \/ Gate(s) \/ LoadGate(s) \/ WaitProbe(s) \/ WaitSleep(s)
    \/ Read(s) \/ MigrateSave(s) \/ Mutate(s) \/ Write(s)

\* The interpreter keeps executing a call it has started.
LiveLockSpec == LockSpec /\ WF_vars(Running("s1"))

\* wait_for_file_unlock on its own, for every budget and every course of the
\* lock over the seconds 0..MaxWaitArg.
WaitInit ==
    /\ file = ToExcel(EmptyFrame)
    /\ NoCallInProgress
    /\ \E max_wait \in 0..MaxWaitArg, locked_at \in [0..MaxWaitArg -> BOOLEAN] :
         last = [op |-> "waiting", max_wait |-> max_wait, locked_at |-> locked_at]

CallWait ==
    /\ last.op = "waiting"
    /\ last' = [op |-> "waited", max_wait |-> last.max_wait, locked_at |-> last.locked_at,
                result |-> WaitForFileUnlockOver(last.max_wait, last.locked_at)]
    /\ UNCHANGED <<file, held, session>>

WaitSpec == WaitInit /\ [][CallWait]_vars

\* Two sessions' calls interleaved, no other program holding the workbook
\* (so that no wait is entered).
ConcurrentNext ==
    \E s \in Sessions :
       \/ BeginAppend(s) \/ BeginUpdate(s) \/ BeginDelete(s)
       \/ Gate(s) \/ LoadGate(s) \/ Read(s) \/ Mutate(s) \/ Write(s)

ConcurrentSpec == Init /\ [][ConcurrentNext]_vars

----------------------------------------------------------------------------
(* Claims.  "The table" is Table(file): what a load of the file returns. *)

\* A row of the file holding the incoming record's company and title texts
\* (as append wrote them).
HoldsIdentity(f, job_info) ==
    \E i \in 1..Len(f.rows) :
       /\ f.rows[i].Company = NewRow(job_info).Company
       /\ f.rows[i].JobTitle = NewRow(job_info).JobTitle

\* C1 as stated: whenever a row appended earlier and still in the file has the
\* incoming record's (company, title), the empty string included, an append
\* that returns gives added=false and leaves the row count unchanged.
C1_DedupEveryIdentity ==
    [][(last'.op = "append" /\ last'.exc = "none" /\ HoldsIdentity(file, last'.job_info))
         => (last'.ret = FALSE /\ Len(Table(file')) = Len(Table(file)))]_vars

\* C1, the part the code keeps: the same with both identity texts non-empty.
C1_DedupNonEmptyIdentity ==
    [][(/\ last'.op = "append" /\ last'.exc = "none"
        /\ HoldsIdentity(file, last'.job_info)
        /\ NewRow(last'.job_info).Company \notin NaValues
        /\ NewRow(last'.job_info).JobTitle \notin NaValues)
         => (last'.ret = FALSE /\ Len(Table(file')) = Len(Table(file)))]_vars

\* C2 as stated: after append(record) returned added=true, the last row of the
\* reloaded table has the record's seven fields, string for string.
C2_RoundTrip ==
    [][(last'.op = "append" /\ last'.exc = "none" /\ last'.ret = TRUE)
         => (/\ Len(Table(file')) >= 1
             /\ Table(file')[Len(Table(file'))] = NewRow(last'.job_info))]_vars

\* C3: update_row_status and delete_row with a row number below 1 or above the
\* row count return a failure and leave the table's rows as they were.
C3_OutOfRangeRejected ==
    [][(/\ last'.op \in {"update", "delete"}
        /\ (last'.row_number < 1 \/ last'.row_number > Len(Table(file))))
         => (/\ last'.ret.success = FALSE
             /\ Table(file') = Table(file)
             /\ file'.rows = file.rows)]_vars

\* C3's case: delete_row(count + 1) on a table with rows was refused.
C3_Witness ==
    /\ last.op = "delete"
    /\ Len(Table(file)) >= 1
    /\ last.row_number = Len(Table(file)) + 1
    /\ last.ret.success = FALSE
    /\ last.ret.message = MsgOutOfRange

\* C4: a successful delete_row(n) removes exactly the row at position n of the
\* loaded table: one row fewer, rows before n unchanged, every later row moved
\* up by one with its seven fields unchanged, and the identity returned is
\* that of the removed row.
C4_DeleteRemovesRowN ==
    [][(last'.op = "delete" /\ last'.ret.success)
         => LET old == Table(file)
                new == Table(file')
                n == last'.row_number
            IN /\ 1 <= n /\ n <= Len(old)
               /\ Len(new) = Len(old) - 1
               /\ \A k \in 1..(n - 1) : new[k] = old[k]
               /\ \A k \in n..Len(new) : new[k] = old[k + 1]
               /\ last'.ret.company = old[n].Company
               /\ last'.ret.title = old[n].JobTitle]_vars

\* C4's case: the middle row of a three-row table was deleted.
C4_Witness ==
    /\ last.op = "delete"
    /\ last.ret.success
    /\ last.row_number = 2
    /\ Len(Table(file)) = 2
    /\ Table(file)[1] # Table(file)[2]

\* C5: a successful update_row_status(n, s) changes the Status of row n to s
\* and nothing else: same row count, same order, the other six fields of row
\* n and every other row unchanged.
C5_UpdateChangesOnlyStatus ==
    [][(last'.op = "update" /\ last'.ret.success)
         => LET old == Table(file)
                new == Table(file')
                n == last'.row_number
            IN /\ 1 <= n /\ n <= Len(old)
               /\ Len(new) = Len(old)
               /\ \A k \in 1..Len(old) : k # n => new[k] = old[k]
               /\ new[n] = [old[n] EXCEPT !.Status = last'.new_status]]_vars

\* C5's case: one row of a table with several rows was updated, another kept
\* its status.
C5_Witness ==
    /\ last.op = "update"
    /\ last.ret.success
    /\ Len(Table(file)) >= 2
    /\ Table(file)[last.row_number].Status = last.new_status
    /\ \E k \in 1..Len(Table(file)) : Table(file)[k].Status # last.new_status

\* Two rows that differ at most in Status.
SameButStatus(a, b) == [a EXCEPT !.Status = ""] = [b EXCEPT !.Status = ""]

\* C6: no operation reorders rows.  Every step either adds one row at position
\* count + 1 below the unchanged earlier rows, or removes one row and closes
\* the gap, or keeps every row at its position; the rows are always numbered
\* 1..count.
C6_OrderKept ==
    [][\/ file' = file
       \/ \A old \in {Table(file)}, new \in {Table(file')} :
          /\ DOMAIN new = 1..Len(new)
          /\ \/ new = old
             \/ /\ Len(new) = Len(old) + 1
                /\ \A k \in 1..Len(old) : new[k] = old[k]
             \/ /\ Len(new) = Len(old) - 1
                /\ \E n \in 1..Len(old) :
                     /\ \A k \in 1..(n - 1) : new[k] = old[k]
                     /\ \A k \in n..Len(new) : new[k] = old[k + 1]
             \/ /\ Len(new) = Len(old)
                /\ \A k \in 1..Len(old) : SameButStatus(new[k], old[k])]_vars

\* C6's case: an append landed at position 3, below two distinct rows of which
\* the first had been updated.
C6_Witness ==
    /\ last.op = "append"
    /\ last.ret = TRUE
    /\ Len(Table(file)) = 3
    /\ Table(file)[1].Status = "Interviewed"
    /\ Table(file)[3].Status = "Applied"
    /\ Table(file)[1] # Table(file)[2]

ModelAnswered == last.op = "process" /\ last.fetch = "ok" /\ last.gen \in ModelTexts

\* C8 as stated: whatever text the model returned (an object, a fenced object,
\* prose, an empty or missing text, JSON that is not an object), the call goes
\* on to append; it does not end in the parse or attach step.
C8_ParseNeverFailsPipeline ==
    ModelAnswered => last.stage \in {"persist", "return"}

\* C8, the part the code keeps: a text that is present and is not the text of a
\* non-object JSON value reaches append with the parsed or the fallback record.
C8_TextReachesAppend ==
    (/\ ModelAnswered
     /\ last.gen # NoText
     /\ ~(JsonLoads(CleanResponse(last.gen)).ok
          /\ JsonLoads(CleanResponse(last.gen)).value.type # "dict"))
      => last.stage \in {"persist", "return"}

\* C9: process_job_url lets no exception escape; whatever fetch, generate,
\* parse and append do, it returns a result with a boolean success flag.
C9_ProcessNeverRaises ==
    last.op = "process"
      => (/\ last.raised = "none"
          /\ {"success", "message"} \subseteq DOMAIN last.ret
          /\ last.ret.success \in BOOLEAN)

\* C9's case: append raised its lock failure and process returned a failure
\* result carrying it.
C9_Witness ==
    /\ last.op = "process"
    /\ last.stage = "persist"
    /\ last.raised = "none"
    /\ last.ret.success = FALSE
    /\ last.ret.error = "PermissionError"

\* C10 as stated: the result has an error field exactly when fetch, generate
\* or persist raised; a duplicate gives success=false with the 'already exists'
\* message and the record and no error field; an added record gives
\* success=true and the record.
C10_ErrorIffStepRaised ==
    last.op = "process"
      => (/\ ("error" \in DOMAIN last.ret) <=> (last.stage \in {"fetch", "generate", "persist"})
          /\ (last.stage = "return" /\ ~last.ret.success)
               => (/\ last.ret.message = MsgExists
                   /\ "job_info" \in DOMAIN last.ret
                   /\ "error" \notin DOMAIN last.ret)
          /\ (last.stage = "return" /\ last.ret.success)
               => (/\ last.ret.message = MsgAdded
                   /\ "job_info" \in DOMAIN last.ret))

\* C10, the part the code keeps: the error field is there exactly when the
\* call did not get a bool back from append.
C10_ErrorIffNotReturned ==
    last.op = "process"
      => (/\ ("error" \in DOMAIN last.ret) <=> (last.stage # "return")
          /\ (last.stage = "return" /\ ~last.ret.success)
               => (/\ last.ret.message = MsgExists
                   /\ "job_info" \in DOMAIN last.ret)
          /\ (last.stage = "return" /\ last.ret.success)
               => (/\ last.ret.message = MsgAdded
                   /\ "job_info" \in DOMAIN last.ret))

\* C11: one process_job_url call makes its collaborator calls in the order
\* fetch, generate, append, each at most once and fetch exactly once; generate
\* is called only after the fetch returned and append only after the model
\* answered; when the fetch or the model call raises, no later call is made
\* and the file is left as it was.
C11_LinearPipeline ==
    [][last'.op = "process"
         => (/\ last'.steps \in {<<"fetch">>, <<"fetch", "generate">>,
                                 <<"fetch", "generate", "append">>}
             /\ (Len(last'.steps) >= 2) => (last'.fetch = "ok")
             /\ (Len(last'.steps) = 3) => (last'.fetch = "ok" /\ last'.gen \in ModelTexts)
             /\ (last'.fetch # "ok") => (last'.steps = <<"fetch">> /\ file' = file)
             /\ (last'.fetch = "ok" /\ last'.gen \notin ModelTexts)
                  => (last'.steps = <<"fetch", "generate">> /\ file' = file))]_vars

\* C11's case: the fetch failed on a table that has rows; nothing else ran.
C11_Witness ==
    /\ last.op = "process"
    /\ last.fetch = "RequestException"
    /\ last.steps = <<"fetch">>
    /\ Len(Table(file)) >= 1
    /\ "error" \in DOMAIN last.ret

\* The model's text is there and json.loads rejects what is left of it.
NotValidJson(text) == text # NoText /\ ~JsonLoads(CleanResponse(text)).ok

\* C12: whenever the model's text is not valid JSON, the record handed to
\* append has "Could not extract" as company, title, location and job
\* functions, status "Applied" and today's date, whatever the url and the text.
C12_FallbackRecord ==
    (ModelAnswered /\ NotValidJson(last.gen))
      => (/\ last.job_info # NoRecord
          /\ last.job_info.company_name = COULD_NOT_EXTRACT
          /\ last.job_info.position_title = COULD_NOT_EXTRACT
          /\ last.job_info.location = COULD_NOT_EXTRACT
          /\ last.job_info.job_functions = COULD_NOT_EXTRACT
          /\ last.job_info.status = "Applied"
          /\ last.job_info.date_applied = Today)

\* C12's case: prose answered for a page with a url; the fallback record was added.
C12_Witness ==
    /\ last.op = "process"
    /\ last.gen = <<"prose">>
    /\ last.url # ""
    /\ last.stage = "return"
    /\ last.ret.success
    /\ last.ret.job_info.company_name = COULD_NOT_EXTRACT

\* The object text of an answer wrapped in a json fence and a closing fence,
\* with whitespace around or inside the fences; <<>> for any other answer.
Unfenced(text) ==
    LET inner == SelectSeq(text, LAMBDA t : t \notin {Newline, FenceJson, Fence})
        t0 == Strip(text)
    IN IF /\ Len(t0) >= 3
          /\ t0[1] = FenceJson
          /\ t0[Len(t0)] = Fence
          /\ Len(inner) = 1
          /\ inner[1] \in JsonTokens
          /\ JsonValue(inner[1]).type = "dict"
       THEN inner
       ELSE <<>>

\* C13: a JSON object wrapped in a leading json fence and a trailing fence
\* gives the record the unwrapped object gives.
C13_FencedParsesAsUnwrapped ==
    (ModelAnswered /\ last.gen # NoText /\ Unfenced(last.gen) # <<>>)
      => (/\ last.job_info # NoRecord
          /\ last.job_info = WithUrl(JsonValue(Unfenced(last.gen)[1]).value, last.url))

\* C13's case: a fenced object was parsed and added.
C13_Witness ==
    /\ last.op = "process"
    /\ last.gen = <<FenceJson, Newline, ObjAcme, Newline, Fence>>
    /\ last.stage = "return"
    /\ last.ret.success
    /\ last.ret.job_info.company_name = "Acme"
    /\ last.ret.job_info.position_title = "Engineer"

\* C19: the record handed to append has url equal to the url process_job_url
\* was called with (the empty string included), for the parsed and for the
\* fallback record and whatever url the model's answer names; when the record
\* is added, the new last row's URL cell is written with that value.
C19_UrlAttached ==
    [][(last'.op = "process" /\ Len(last'.steps) = 3)
         => (/\ last'.job_info.url = last'.url
             /\ (last'.stage = "return" /\ last'.ret.success)
                  => (/\ Len(file'.rows) >= 1
                      /\ file'.rows[Len(file'.rows)].URL = last'.url))]_vars

\* C19's case: the model's answer names another url; the row added carries the
\* url of the call.
C19_Witness ==
    /\ last.op = "process"
    /\ last.gen = <<ObjPartial>>
    /\ last.url # ""
    /\ last.url # ModelUrl
    /\ last.ret.success
    /\ file.rows[Len(file.rows)].URL = last.url

\* The file is a workbook without the URL column.
LacksUrl(f) == f.kind = "table" /\ "URL" \notin Range(f.cols)

\* File g is file f with the URL column added last, empty in every row, and
\* every other cell reading as before.
IsMigrationOf(g, f) ==
    /\ g.kind = "table"
    /\ g.cols = Append(f.cols, "URL")
    /\ Len(g.rows) = Len(f.rows)
    /\ \A i \in 1..Len(f.rows) :
          /\ g.rows[i].URL = ""
          /\ \A c \in Range(f.cols) : ReadCell(g.rows[i][c]) = ReadCell(f.rows[i][c])

\* C14 as stated: a load_or_create_excel that returns always returns a table
\* with a URL column; on a workbook lacking the column it has written the
\* workbook with the column added (empty in every row, the rows and the other
\* columns as they were) and returns those rows; on a workbook that has the
\* column it writes nothing.
C14_MigratesOnce ==
    [][(last'.op = "load" /\ last'.exc = "none")
         => (/\ "URL" \in Range(last'.df.cols)
             /\ LacksUrl(file)
                  => (/\ IsMigrationOf(file', file)
                      /\ Len(last'.df.rows) = Len(file.rows))
             /\ (file.kind = "table" /\ ~LacksUrl(file)) => (file' = file))]_vars

\* C14, the part the code keeps: the same, for the loads that met no lock and
\* whose save of the migrated workbook did not fail.
C14_MigratesOnceWhenSaved ==
    [][(last'.op = "load" /\ last'.exc = "none")
         => (/\ "URL" \in Range(last'.df.cols)
             /\ (LacksUrl(file) /\ last'.clean)
                  => (/\ IsMigrationOf(file', file)
                      /\ Len(last'.df.rows) = Len(file.rows))
             /\ (file.kind = "table" /\ ~LacksUrl(file)) => (file' = file))]_vars

\* C15 as stated: the table a load returns, and the file after an append or a
\* delete that wrote it, have exactly the seven columns in the fixed order,
\* whatever columns the file had before.
C15_SevenColumns ==
    /\ (last.op = "load" /\ last.exc = "none") => (last.df.cols = columns)
    /\ (last.op = "append" /\ last.exc = "none" /\ last.ret) => (file.cols = columns)
    /\ (last.op = "delete" /\ last.ret.success) => (file.cols = columns)

\* C15, the part the code keeps: a workbook the program made from nothing, or
\* from a file it could not parse, has the seven columns in the fixed order.
C15_SevenColumnsWhenCreated ==
    [][(file.kind # "table" /\ file'.kind = "table") => (file'.cols = columns)]_vars

\* C16: load_or_create_excel raises nothing but its lock failure; on a file
\* that exists and cannot be parsed it returns, when no lock is met, the empty
\* table with the seven columns.
C16_LoadRaisesOnlyLock ==
    [][(last'.op = "load")
         => (/\ last'.exc \in {"none", "PermissionError"}
             /\ (file.kind = "corrupt" /\ last'.exc = "none") => (last'.df = EmptyFrame)
             /\ (file.kind = "corrupt" /\ last'.clean) => (last'.exc = "none"))]_vars

\* C16's case: a load of the unparsable file returned the empty table.
C16_Witness ==
    /\ last.op = "load"
    /\ file = CorruptFile
    /\ last.exc = "none"
    /\ last.clean
    /\ last.df = EmptyFrame

\* The step wrote the file: an append that added its row, a delete that
\* removed one, or a load (inside any operation) that saved the migration.
Wrote ==
    \/ last'.op = "append" /\ last'.exc = "none" /\ last'.ret
    \/ last'.op = "delete" /\ last'.ret.success
    \/ LacksUrl(file) /\ IsMigrationOf(file', file)

\* C17: a file that exists is changed by successful writes only: a load of an
\* unparsable file, an append rejected as duplicate, a delete refused by its
\* range check and every operation ended by a lock failure leave the file,
\* the unparsable one included, exactly as it was.
C17_OnlyWritesChangeFile ==
    [][(file.kind # "absent" /\ ~Wrote) => (file' = file)]_vars

\* C17's case: a delete on the unparsable file found no data and left it.
C17_Witness ==
    /\ last.op = "delete"
    /\ last.ret.message = MsgNoData
    /\ file = CorruptFile

\* A row of the loaded table t compares equal to the record's company and title.
TableHolds(t, job_info) ==
    \E i \in 1..Len(t) :
       /\ t[i].Company = Get(job_info, "company_name", "")
       /\ t[i].JobTitle = Get(job_info, "position_title", "")

\* C18: every operation works on the file as it is when the operation runs,
\* rows typed in by another writer since the last operation included: an
\* append is rejected exactly when a row of that file holds the identity, and
\* otherwise keeps all its rows and adds one; a delete checks the row number
\* against that file's row count, names the identity of its row n and keeps
\* all its other rows.
C18_ComputedFromCurrentFile ==
    [][\A old \in {Table(file)}, new \in {Table(file')} :
         /\ (last'.op = "append" /\ last'.exc = "none")
              => (/\ last'.ret = ~TableHolds(old, last'.job_info)
                  /\ last'.ret => (/\ Len(new) = Len(old) + 1
                                   /\ \A k \in 1..Len(old) : new[k] = old[k]))
         /\ (last'.op = "delete")
              => (/\ (last'.row_number < 1 \/ last'.row_number > Len(old))
                       => ~last'.ret.success
                  /\ last'.ret.success
                       => (/\ last'.ret.company = old[last'.row_number].Company
                           /\ last'.ret.title = old[last'.row_number].JobTitle
                           /\ Len(new) = Len(old) - 1
                           /\ \A k \in 1..Len(new) :
                                 new[k] = old[IF k < last'.row_number THEN k ELSE k + 1]))]_vars

\* C18's case: a row typed in by the other writer is still there, above the
\* row an append added after it.
C18_Witness ==
    /\ last.op = "append"
    /\ last.exc = "none"
    /\ last.ret
    /\ Len(file.rows) >= 2
    /\ file.rows[Len(file.rows) - 1] = NewRow(FullInfo("Initech", "Analyst"))

\* C20: the key used is the argument when one is given; otherwise the built-in
\* default when it is set (not empty, not the placeholder); otherwise
\* GEMINI_API_KEY, and GOOGLE_API_KEY when that is not set; construction
\* fails exactly when none of them yields a key.
C20_CredentialOrder ==
    last.op = "constructed"
      => LET g == last.given
             r == last.result
         IN /\ Truthy(g.api_key) => (r.raised = "none" /\ r.api_key = g.api_key)
            /\ (~Truthy(g.api_key) /\ Truthy(g.default_key) /\ g.default_key # Placeholder)
                 => (r.raised = "none" /\ r.api_key = g.default_key)
            /\ (/\ ~Truthy(g.api_key)
                /\ ~(Truthy(g.default_key) /\ g.default_key # Placeholder)
                /\ Truthy(g.gemini))
                 => (r.raised = "none" /\ r.api_key = g.gemini)
            /\ (/\ ~Truthy(g.api_key)
                /\ ~(Truthy(g.default_key) /\ g.default_key # Placeholder)
                /\ ~Truthy(g.gemini)
                /\ Truthy(g.google))
                 => (r.raised = "none" /\ r.api_key = g.google)
            /\ (r.raised = "ValueError")
                 <=> (/\ ~Truthy(g.api_key)
                      /\ ~(Truthy(g.default_key) /\ g.default_key # Placeholder)
                      /\ ~Truthy(g.gemini)
                      /\ ~Truthy(g.google))

\* C20's case: no argument, the placeholder as default, both environment
\* variables set: the key is GEMINI_API_KEY's.
C20_Witness ==
    /\ last.op = "constructed"
    /\ last.given.api_key = PyNone
    /\ last.given.default_key = Placeholder
    /\ last.given.gemini = "key-gemini"
    /\ last.given.google = "key-google"
    /\ last.result = [raised |-> "none", api_key |-> "key-gemini"]

----------------------------------------------------------------------------
(* Claims about calls in progress *)

\* C21: the save step of append_to_excel makes at most max_retries (3)
\* to_excel calls.  The call returns True exactly when one of them succeeded;
\* after one that failed on the lock and was not the last it is in the wait
\* with the 10 s budget or at the next attempt, whatever that wait returned;
\* it ends on a lock failure only after the third, raising PermissionError.
C21_BoundedSave ==
    \A s \in Sessions :
      LET l == session[s]
      IN l.op = "append" =>
           /\ l.writes <= max_retries
           /\ l.attempt < max_retries
           /\ (l.pc = "done" /\ l.exc = "none" /\ l.ret.success) <=> (l.werr = "ok")
           /\ (l.werr = "PermissionError" /\ l.writes < max_retries) =>
                 /\ l.pc \in {"wait_probe", "wait_sleep", "write"}
                 /\ l.site = "retry"
                 /\ l.max_wait = RetryMaxWait
                 /\ l.pc = "write" => l.attempt = l.writes
                                      /\ l.wait_ret \in {"unlocked", "timeout"}
           /\ (l.pc = "done" /\ l.werr = "PermissionError") =>
                 l.writes = max_retries /\ l.exc = "PermissionError"

\* The third attempt succeeded after the wait before it had timed out.
C21_Witness ==
    \E s \in Sessions :
       /\ session[s].op = "append"
       /\ session[s].pc = "done"
       /\ session[s].writes = max_retries
       /\ session[s].ret.success
       /\ session[s].wait_ret = "timeout"

\* All three attempts failed on the lock.
C21_WitnessGivesUp ==
    \E s \in Sessions :
       /\ session[s].op = "append"
       /\ session[s].pc = "done"
       /\ session[s].writes = max_retries
       /\ session[s].exc = "PermissionError"

\* C22: update_row_status and delete_row retry their save as append_to_excel
\* does: a call whose to_excel failed on the lock ends only after max_retries
\* (3) attempts, and then reports the lock failure.
C22_UpdateDeleteRetry ==
    \A s \in Sessions :
      LET l == session[s]
      IN (l.op \in {"update", "delete"} /\ l.pc = "done" /\ l.werr = "PermissionError") =>
            l.writes = max_retries /\ l.ret.message = MsgLocked

\* C23: in append_to_excel, update_row_status and delete_row every to_excel
\* call of the save step directly follows a lock probe: a call that is about
\* to write has taken a probe as its previous step.
C23_ProbeBeforeWrite ==
    \A s \in Sessions : session[s].pc = "write" => session[s].prev = "probe"

\* C24: a call whose only file access is the lock probe leaves the file as it
\* is: update_row_status or delete_row called while there is no file leaves
\* no file.
C24_ProbeLeavesFile ==
    [][(file.kind = "absent" /\ last'.op \in {"update", "delete"}) => file' = file]_vars

\* C25: wait_for_file_unlock(max_wait) probes at the elapsed seconds 0, 2, 4, ...
\* below max_wait up to the first probe that finds the file writable; it
\* returns False only if the file was locked at every second up to max_wait,
\* and returns True whenever the file is writable at second 0, for every
\* max_wait >= 0.
C25_TrueIffWritableInBudget ==
    last.op = "waited" =>
      /\ \A i \in 1..Len(last.result.probed) :
            /\ last.result.probed[i] = SleepSeconds * (i - 1)
            /\ last.result.probed[i] < last.max_wait
            /\ i < Len(last.result.probed) => last.locked_at[last.result.probed[i]]
      /\ ~last.result.ret => \A t \in 0..last.max_wait : last.locked_at[t]
      /\ ~last.locked_at[0] => last.result.ret

\* What holds of the wait: True exactly when one of the probes at the even
\* seconds below max_wait found the file writable.
C25_TrueIffProbeFoundWritable ==
    last.op = "waited" =>
      (last.result.ret <=>
         \E t \in 0..(last.max_wait - 1) : t % SleepSeconds = 0 /\ ~last.locked_at[t])

\* C26: every store call that is started ends, however the other program
\* opens, closes or keeps the workbook: a wait makes at most
\* ceil(max_wait / 2) probes, a call enters at most one wait per lock check
\* and one per retry, and makes at most max_retries to_excel calls in its
\* save step.
C26_Terminates ==
    /\ [](\A s \in Sessions :
            LET l == session[s]
            IN /\ l.loop_probes <= (l.max_wait + SleepSeconds - 1) \div SleepSeconds
               /\ l.max_wait \in {0, DefaultMaxWait, RetryMaxWait}
               /\ l.loops <= IF l.op = "append" THEN 2 + (max_retries - 1)
                             ELSE IF l.op = "load" THEN 1 ELSE 2
               /\ l.writes <= IF l.op = "append" THEN max_retries ELSE 1)
    /\ \A s \in Sessions :
          (session[s].pc \notin {"idle", "done"}) ~> (session[s].pc = "done")

\* A call that met the lock at every probe of its wait has ended with the
\* lock failure.
C26_Witness ==
    \E s \in Sessions :
       /\ session[s].pc = "done"
       /\ session[s].wait_ret = "timeout"
       /\ session[s].loop_probes = DefaultMaxWait \div SleepSeconds
       /\ \/ session[s].exc = "PermissionError"
          \/ session[s].ret.message = MsgLocked

\* C27: calls of two sessions are not serialized and the rewrite is
\* last-write-wins: a successful save installs the writer's own table (what it
\* loaded, with its change) whatever the file has come to hold since the load,
\* so a row the file holds that the writer's table lacks is gone, and the
\* call reports success all the same.
C27_LastWriteWins ==
    [][\A s \in Sessions :
          (session[s].pc = "write" /\ session'[s].pc = "done" /\ session'[s].werr = "ok") =>
             /\ file' = ToExcel(session[s].df)
             /\ \A row \in Range(file.rows) :
                   row \notin Range(ToExcel(session[s].df).rows) =>
                      row \notin Range(file'.rows)
             /\ session'[s].exc = "none"
             /\ session'[s].ret.success]_vars

\* Two appends of distinct records, both made onto the empty table, have both
\* returned True, and the file holds the record of one of them only.
C27_Witness ==
    /\ \A s \in Sessions :
          /\ session[s].op = "append"
          /\ session[s].pc = "done"
          /\ session[s].ret.success
          /\ Len(session[s].df.rows) = 1
    /\ session["s1"].job_info # session["s2"].job_info
    /\ file = ToExcel(session["s2"].df)
    /\ ~HoldsIdentity(file, session["s1"].job_info)

\* The call of session s has loaded the table and not yet finished its save.
InFlight(s) == session[s].pc \in {"mutate", "write"}

\* C28: of the sessions sharing the cached JobExtractor at most one has a
\* mutating call between its load and its write.
C28_OneInFlight ==
    \A s, t \in Sessions : (InFlight(s) /\ InFlight(t)) => s = t

\* C29: a to_excel call of append_to_excel's save step that fails with an
\* exception other than PermissionError is retried: the call ends on such a
\* failure only after max_retries (3) attempts.
C29_OtherFailuresRetried ==
    \A s \in Sessions :
      (session[s].op = "append" /\ session[s].pc = "done" /\ session[s].werr = "Exception") =>
         session[s].writes = max_retries

\* C30: update_row_status(n, s) and delete_row(n) with n outside
\* [1, count], count >= 0 being the number of rows of the table, fail with the
\* out-of-range message and no other kind of result (a lock or access
\* failure apart).
C30_OutOfRangeReported ==
    [][(/\ last'.op \in {"update", "delete"}
        /\ (last'.row_number < 1 \/ last'.row_number > Len(Table(file)))) =>
          last'.ret.message \in {MsgOutOfRange, MsgLocked, MsgUpdateFailed, MsgDeleteFailed}]_vars

\* What holds: for a table that has rows the out-of-range message is the
\* result.
C30_OutOfRangeReportedWhenRows ==
    [][(/\ last'.op \in {"update", "delete"}
        /\ Len(Table(file)) > 0
        /\ (last'.row_number < 1 \/ last'.row_number > Len(Table(file)))) =>
          last'.ret.message \in {MsgOutOfRange, MsgLocked, MsgUpdateFailed, MsgDeleteFailed}]_vars

----------------------------------------------------------------------------
(* Claims about the persisted rows *)

\* C31: starting from no file, after any sequence of append_to_excel,
\* update_row_status and delete_row calls made one at a time, no two rows of
\* the file have the same Company and Job Title.
C31_UniqueIdentity ==
    \A i, j \in 1..Len(file.rows) :
       (file.rows[i].Company = file.rows[j].Company
        /\ file.rows[i].JobTitle = file.rows[j].JobTitle) => i = j

\* What holds: no two rows share an identity whose two texts are both read
\* back as they were written.
C31_UniqueNonEmptyIdentity ==
    \A i, j \in 1..Len(file.rows) :
       (/\ file.rows[i].Company = file.rows[j].Company
        /\ file.rows[i].JobTitle = file.rows[j].JobTitle
        /\ file.rows[i].Company \notin NaValues
        /\ file.rows[i].JobTitle \notin NaValues) => i = j

\* C32: a call that ends with a lock failure leaves the rows as they were:
\* after append_to_excel raised PermissionError (at its lock check, in the
\* load, or after the last save attempt), and after update_row_status or
\* delete_row returned a failure, the table is the one the file held before
\* the call, and a workbook is the same workbook.
C32_LockFailureKeepsRows ==
    [][(\/ last'.op = "append" /\ last'.exc = "PermissionError"
        \/ last'.op \in {"update", "delete"} /\ ~last'.ret.success) =>
          \/ file' = file
          \/ file.kind # "table" /\ Table(file') = Table(file)]_vars

\* An append onto a table with rows gave up on the lock.
C32_Witness ==
    /\ last.op = "append"
    /\ last.exc = "PermissionError"
    /\ Len(Table(file)) >= 1

\* An update of a row in range was refused because the file was locked.
C32_WitnessUpdate ==
    /\ last.op = "update"
    /\ last.ret.message = MsgLocked
    /\ last.row_number \in 1..Len(Table(file))

\* The same for a workbook that was there before: the load of such a call
\* may have added and saved the URL column, and nothing else differs.
C32_LockFailureKeepsCells ==
    [][((\/ last'.op = "append" /\ last'.exc = "PermissionError"
         \/ last'.op \in {"update", "delete"} /\ ~last'.ret.success)
        /\ file.kind = "table") =>
          /\ file'.kind = "table"
          /\ Len(file'.rows) = Len(file.rows)
          /\ \A i \in 1..Len(file.rows) : \A c \in Range(file.cols) :
                file'.rows[i][c] = file.rows[i][c]
          /\ Range(file'.cols) \subseteq Range(file.cols) \cup {"URL"}]_vars

\* C33: on a file that parses as a table, load_or_create_excel returns the
\* file's rows or raises PermissionError, also when the save of the added
\* URL column fails otherwise; so an append_to_excel that returns True leaves
\* one row more than the file had.
C33_LoadKeepsRows ==
    [][/\ (last'.op = "load" /\ file.kind = "table") =>
             \/ last'.exc = "PermissionError"
             \/ last'.exc = "none" /\ Len(last'.df.rows) = Len(file.rows)
       /\ (last'.op = "append" /\ file.kind = "table"
           /\ last'.exc = "none" /\ last'.ret = TRUE) =>
             Len(file'.rows) = Len(file.rows) + 1]_vars

\* What holds: the same for a workbook that has the URL column.
C33_LoadKeepsRowsWithUrlColumn ==
    [][/\ (last'.op = "load" /\ file.kind = "table" /\ "URL" \in Range(file.cols)) =>
             \/ last'.exc = "PermissionError"
             \/ last'.exc = "none" /\ last'.df = ReadExcel(file)
       /\ (last'.op = "append" /\ file.kind = "table" /\ "URL" \in Range(file.cols)
           /\ last'.exc = "none" /\ last'.ret = TRUE) =>
             Len(file'.rows) = Len(file.rows) + 1]_vars

\* A row of the file that holds the fallback record's company and title.
IsFallbackRow(row) == row.Company = COULD_NOT_EXTRACT /\ row.JobTitle = COULD_NOT_EXTRACT

C35_RowOperationsNeverRaise ==
    \A s \in Sessions :
      LET l == session[s]
      IN l.pc = "done" =>
           /\ l.op \in {"update", "delete"} =>
                 /\ l.exc = "none"
                 /\ l.ret.success <=> l.werr = "ok"
                 /\ ~l.ret.success =>
                       l.ret.message \in {MsgLocked, MsgNoData, MsgOutOfRange,
                                          IF l.op = "update" THEN MsgUpdateFailed
                                          ELSE MsgDeleteFailed}
           /\ (/\ l.op = "append"
               /\ \/ l.werr = "PermissionError"
                  \/ l.wait_ret = "timeout" /\ l.site \in {"gate", "load_gate"}) =>
                 l.exc = "PermissionError"

\* An update whose to_excel met the lock returned its failure.
C35_Witness ==
    \E s \in Sessions :
       /\ session[s].op = "update"
       /\ session[s].pc = "done"
       /\ session[s].werr = "PermissionError"
       /\ session[s].exc = "none"
       /\ session[s].ret.message = MsgUpdateFailed

\* An update of a row of a workbook without Status column returned its failure.
C35_WitnessNoStatusColumn ==
    \E s \in Sessions :
       /\ session[s].op = "update"
       /\ session[s].pc = "done"
       /\ session[s].prev = "mutate"
       /\ "Status" \notin Range(session[s].df.cols)
       /\ session[s].row_number \in 1..Len(session[s].df.rows)
       /\ session[s].ret.message = MsgUpdateFailed

\* A delete whose load met the lock at every probe returned its failure.
C35_WitnessLoadLocked ==
    \E s \in Sessions :
       /\ session[s].op = "delete"
       /\ session[s].pc = "done"
       /\ session[s].site = "load_gate"
       /\ session[s].wait_ret = "timeout"
       /\ session[s].ret.message = MsgDeleteFailed

\* C36: delete_row frees the identity: when the call before was a delete_row
\* that removed the row named (c, t) and no row with these texts is left, an
\* append_to_excel of a record with (c, t) that returns gives True and the
\* record is the file's last row, also when the delete left no row at all.
C36_DeleteFreesIdentity ==
    [][(/\ last.op = "delete" /\ last.ret.success
        /\ last'.op = "append" /\ last'.exc = "none"
        /\ WriteCell(last.ret.company) = NewRow(last'.job_info).Company
        /\ WriteCell(last.ret.title) = NewRow(last'.job_info).JobTitle
        /\ ~HoldsIdentity(file, last'.job_info)) =>
          /\ last'.ret = TRUE
          /\ Len(file'.rows) = Len(file.rows) + 1
          /\ file'.rows[Len(file'.rows)] = NewRow(last'.job_info)
          /\ \A i \in 1..Len(file.rows) : file'.rows[i] = file.rows[i]]_vars

\* The record whose only row a delete had removed, emptying the table, was
\* added again.
C36_Witness ==
    /\ last.op = "append"
    /\ last.before.op = "delete"
    /\ last.before.ret.success
    /\ WriteCell(last.before.ret.company) = NewRow(last.job_info).Company
    /\ WriteCell(last.before.ret.title) = NewRow(last.job_info).JobTitle
    /\ last.exc = "none"
    /\ last.ret = TRUE
    /\ Len(file.rows) = 1
    /\ file.rows[1] = NewRow(last.job_info)

\* The same with another row left in the table: the record is the last row.
C36_WitnessOtherRowLeft ==
    /\ last.op = "append"
    /\ last.before.op = "delete"
    /\ last.before.ret.success
    /\ WriteCell(last.before.ret.company) = NewRow(last.job_info).Company
    /\ WriteCell(last.before.ret.title) = NewRow(last.job_info).JobTitle
    /\ last.ret = TRUE
    /\ Len(file.rows) = 2
    /\ file.rows[2] = NewRow(last.job_info)

====
